---- MODULE Spec2Model ----
(***************************************************************************)
(* pixel-says: a speech bubble around a word-wrapped message, followed by  *)
(* an image rendered as terminal glyph pairs (src/src/lib.rs).             *)
(*                                                                         *)
(* Strings are sequences of Unicode code points, the sink and the write    *)
(* buffer are sequences of bytes (UTF-8), f32 values are fixed-point       *)
(* numbers rounded to 24 significant bits as IEEE-754 binary32 does.       *)
(***************************************************************************)
EXTENDS Integers, Sequences, FiniteSets, TLC

(***************************************************************************)
(* Bounds of the model.                                                    *)
(***************************************************************************)
\* longest message, in code points
MaxLen == 3
\* largest max_width handed to the framer
MaxWidth == 3
\* most pixels of an enumerated image (width * height)
MaxPixels == 3
\* largest image side of the downsampling specification
MaxSide == 140

(***************************************************************************)
(* Generic helpers.                                                        *)
(***************************************************************************)
Max(a, b) == IF a >= b THEN a ELSE b

Min(a, b) == IF a <= b THEN a ELSE b

Rep(b, n) == [i \in 1..n |-> b]

RECURSIVE Flatten(_)
Flatten(ss) == IF ss = <<>> THEN <<>> ELSE Head(ss) \o Flatten(Tail(ss))

IsPrefix(s, t) == Len(s) <= Len(t) /\ SubSeq(t, 1, Len(s)) = s

RECURSIVE Pow2(_)
Pow2(n) == IF n = 0 THEN 1 ELSE 2 * Pow2(n - 1)

RECURSIVE BitLen(_)
BitLen(n) == IF n = 0 THEN 0 ELSE 1 + BitLen(n \div 2)

(***************************************************************************)
(* Characters.  The alphabet of the enumerated messages: a letter, a       *)
(* combining acute accent (two bytes, zero columns), space, tab, newline.  *)
(***************************************************************************)
Alphabet == {97, 769, 32, 9, 10}

\* UnicodeWidthStr::width per code point: combining marks take no column
CharWidth(c) == IF c >= 768 /\ c <= 879 THEN 0 ELSE 1

RECURSIVE StrWidth(_)
StrWidth(s) == IF s = <<>> THEN 0 ELSE CharWidth(Head(s)) + StrWidth(Tail(s))

\* str::as_bytes: the UTF-8 encoding of one code point (below U+0800)
Utf8(c) == IF c < 128 THEN <<c>> ELSE <<192 + (c \div 64), 128 + (c % 64)>>

RECURSIVE AsBytes(_)
AsBytes(s) == IF s = <<>> THEN <<>> ELSE Utf8(Head(s)) \o AsBytes(Tail(s))

(***************************************************************************)
(* merge_white_spaces: the regex ([^\S\r\n])+ replaced by one space.       *)
(***************************************************************************)
IsBlank(c) == c = 32 \/ c = 9

RECURSIVE merge_white_spaces(_)
merge_white_spaces(s) ==
    IF s = <<>> THEN <<>>
    ELSE IF IsBlank(Head(s))
         THEN IF Len(s) > 1 /\ IsBlank(s[2])
              THEN merge_white_spaces(Tail(s))
              ELSE <<32>> \o merge_white_spaces(Tail(s))
         ELSE <<Head(s)>> \o merge_white_spaces(Tail(s))

(***************************************************************************)
(* textwrap::fill with its default options: words separated by spaces,     *)
(* words wider than the line broken apart, a word opening a new line when  *)
(* it does not fit the current one.  (For texts of fewer than three words  *)
(* a line, as enumerated here, the library's optimal-fit wrapping yields   *)
(* the same lines as first-fit.)                                           *)
(***************************************************************************)
\* str::split('\n'): the pieces between newlines, at least one
RECURSIVE SplitNl(_, _)
SplitNl(s, cur) ==
    IF s = <<>> THEN <<cur>>
    ELSE IF Head(s) = 10 THEN <<cur>> \o SplitNl(Tail(s), <<>>)
         ELSE SplitNl(Tail(s), Append(cur, Head(s)))

\* str::trim_end_matches(' ')
RECURSIVE TrimEnd(_)
TrimEnd(s) ==
    IF s # <<>> /\ s[Len(s)] = 32 THEN TrimEnd(SubSeq(s, 1, Len(s) - 1)) ELSE s

\* Word::from: a word and the number of spaces that follow it
WordFrom(s) == [word |-> TrimEnd(s), ws |-> Len(s) - Len(TrimEnd(s))]

\* find_words: a word ends where a non-space follows a space
RECURSIVE FindWords(_, _, _)
FindWords(s, cur, inWs) ==
    IF s = <<>> THEN (IF cur = <<>> THEN <<>> ELSE <<WordFrom(cur)>>)
    ELSE IF inWs /\ Head(s) # 32
         THEN <<WordFrom(cur)>> \o FindWords(Tail(s), <<Head(s)>>, FALSE)
         ELSE FindWords(Tail(s), Append(cur, Head(s)), Head(s) = 32)

\* Word::break_apart: pieces of at most line_width columns, one character at least
RECURSIVE BreakApart(_, _, _, _, _)
BreakApart(s, cur, width, ws, lw) ==
    IF s = <<>> THEN (IF cur = <<>> THEN <<>> ELSE <<[word |-> cur, ws |-> ws]>>)
    ELSE IF width > 0 /\ width + CharWidth(Head(s)) > lw
         THEN <<[word |-> cur, ws |-> 0]>>
              \o BreakApart(Tail(s), <<Head(s)>>, CharWidth(Head(s)), ws, lw)
         ELSE BreakApart(Tail(s), Append(cur, Head(s)),
                         width + CharWidth(Head(s)), ws, lw)

\* break_words: only the words wider than the line are broken
RECURSIVE BreakWords(_, _)
BreakWords(ws, lw) ==
    IF ws = <<>> THEN <<>>
    ELSE (IF StrWidth(Head(ws).word) > lw
          THEN BreakApart(Head(ws).word, <<>>, 0, Head(ws).ws, lw)
          ELSE <<Head(ws)>>)
         \o BreakWords(Tail(ws), lw)

\* wrap_first_fit: a word opens a new line when it does not fit the current one
RECURSIVE WrapFirstFit(_, _, _, _)
WrapFirstFit(ws, cur, width, lw) ==
    IF ws = <<>> THEN <<cur>>
    ELSE IF width + StrWidth(Head(ws).word) > lw /\ cur # <<>>
         THEN <<cur>> \o WrapFirstFit(Tail(ws), <<Head(ws)>>,
                                      StrWidth(Head(ws).word) + Head(ws).ws, lw)
         ELSE WrapFirstFit(Tail(ws), Append(cur, Head(ws)),
                           width + StrWidth(Head(ws).word) + Head(ws).ws, lw)

\* the text of one wrapped line: its words and the spaces between them
RECURSIVE LineText(_)
LineText(ws) ==
    IF ws = <<>> THEN <<>>
    ELSE IF Len(ws) = 1 THEN Head(ws).word
         ELSE Head(ws).word \o Rep(32, Head(ws).ws) \o LineText(Tail(ws))

\* wrap_single_line: a line shorter (in bytes) than the width is only trimmed
WrapSingleLine(line, lw) ==
    IF Len(AsBytes(line)) < lw THEN <<TrimEnd(line)>>
    ELSE LET wrapped == WrapFirstFit(BreakWords(FindWords(line, <<>>, FALSE), lw),
                                     <<>>, 0, lw)
         IN  [i \in 1..Len(wrapped) |-> LineText(wrapped[i])]

\* wrap: every input line wrapped on its own
Wrap(text, lw) ==
    LET pieces == SplitNl(text, <<>>)
    IN  Flatten([i \in 1..Len(pieces) |-> WrapSingleLine(pieces[i], lw)])

\* fill: the wrapped lines joined by newlines
RECURSIVE JoinNl(_)
JoinNl(ls) ==
    IF ls = <<>> THEN <<>>
    ELSE IF Len(ls) = 1 THEN Head(ls)
         ELSE Head(ls) \o <<10>> \o JoinNl(Tail(ls))

fill(text, lw) == JoinNl(Wrap(text, lw))

\* str::lines: split at newlines, a final empty piece is not a line
StrLines(s) ==
    LET pieces == SplitNl(s, <<>>)
    IN  IF pieces[Len(pieces)] = <<>> THEN SubSeq(pieces, 1, Len(pieces) - 1)
        ELSE pieces

\* lib.rs: the wrapped lines of a message
WrappedLines(message, max_width) ==
    StrLines(fill(merge_white_spaces(message), max_width))

(***************************************************************************)
(* f32 arithmetic.  A non-negative f32 value is ip + fr / 2^27: every      *)
(* value the program computes is a multiple of 2^-27 below 2^10.  Each     *)
(* operation computes the exact result and rounds it to 24 significant     *)
(* bits, ties to even, as IEEE-754 binary32 does.                          *)
(***************************************************************************)
Unit == Pow2(27)

\* the nearest f32 to ip + fr / 2^27
RoundF32(ip, fr) ==
    LET s    == IF ip > 0 THEN 3 + BitLen(ip) ELSE Max(0, BitLen(fr) - 24)
        ulp  == Pow2(s)
        q    == fr \div ulp
        rem  == fr % ulp
        up   == 2 * rem > ulp \/ (2 * rem = ulp /\ q % 2 = 1)
        fr2  == (IF up THEN q + 1 ELSE q) * ulp
    IN  IF fr2 = Unit THEN [ip |-> ip + 1, fr |-> 0] ELSE [ip |-> ip, fr |-> fr2]

\* the 24-bit significand of n / d (with 1 <= n * 2^k / d < 2), by long division:
\* m holds the bits produced so far, r the remainder
RECURSIVE Significand(_, _, _, _)
Significand(m, r, d, bits) ==
    IF bits = 0
    THEN IF 2 * r > d \/ (2 * r = d /\ m % 2 = 1) THEN m + 1 ELSE m
    ELSE IF 2 * r >= d THEN Significand(2 * m + 1, 2 * r - d, d, bits - 1)
         ELSE Significand(2 * m, 2 * r, d, bits - 1)

\* the smallest k with n * 2^k >= d
RECURSIVE Normalise(_, _)
Normalise(n, d) == IF n >= d THEN 0 ELSE 1 + Normalise(2 * n, d)

\* the f32 nearest to n / d, for 1/16 <= n / d < 1: a decimal literal below 1,
\* or the f32 quotient of two small integers
F32Div(n, d) ==
    LET k == Normalise(n, d)
        m == Significand(1, n * Pow2(k) - d, d, 23)
    IN  [ip |-> 0, fr |-> m * Pow2(4 - k)]

\* c * n as f32, for an f32 c < 1 and an integer n < 2^10 (exact as f32)
F32MulInt(c, n) ==
    LET h  == c.fr \div Pow2(14)
        l  == c.fr % Pow2(14)
        t  == n * h + ((n * l) \div Pow2(14))
    IN  RoundF32(t \div Pow2(13), (t % Pow2(13)) * Pow2(14) + ((n * l) % Pow2(14)))

\* a + b as f32
F32Add(a, b) ==
    RoundF32(a.ip + b.ip + ((a.fr + b.fr) \div Unit), (a.fr + b.fr) % Unit)

\* `as u32` of a non-negative f32 below 2^32: truncation
F32Trunc(a) == a.ip

\* `as u8` of a non-negative f32: truncation, saturating at 255
F32TruncU8(a) == Min(a.ip, 255)

\* the same, measuring bytes instead of columns
RECURSIVE longest_line_bytes(_)
longest_line_bytes(lines) ==
    IF lines = <<>> THEN 0
    ELSE Max(Len(AsBytes(Head(lines))), longest_line_bytes(Tail(lines)))

(***************************************************************************)
(* The text framer: lib.rs say_from_dynamic_image (73-127), say (267-314). *)
(***************************************************************************)
\* longest_line: the widest line's display width, 0 without lines
RECURSIVE longest_line(_)
longest_line(lines) ==
    IF lines = <<>> THEN 0
    ELSE Max(StrWidth(Head(lines)), longest_line(Tail(lines)))

\* the top border: a space, actual_width + 2 underscores, a newline
TopBorder(actual_width) == <<32>> \o Rep(95, actual_width + 2) \o <<10>>

\* the bottom border, without its newline: a space, actual_width + 2 dashes
BottomBorder(actual_width) == <<32>> \o Rep(45, actual_width + 2)

\* the opening delimiter without the single-line case
PrefixNoSingle(i, line_count) ==
    IF i = 0 THEN <<47, 32>>
    ELSE IF i = line_count - 1 THEN <<92, 32>>
    ELSE <<124, 32>>

\* the opening delimiter of row i (from 0) of line_count rows: "< ", "/ ", "\ ", "| "
Prefix(i, line_count) ==
    IF line_count = 1 THEN <<60, 32>>
    ELSE IF i = 0 THEN <<47, 32>>
    ELSE IF i = line_count - 1 THEN <<92, 32>>
    ELSE <<124, 32>>

\* the closing delimiter of row i and its newline: " >", " \", " /", " |"
Suffix(i, line_count) ==
    IF line_count = 1 THEN <<32, 62, 10>>
    ELSE IF i = 0 THEN <<32, 92, 10>>
    ELSE IF i = line_count - 1 THEN <<32, 47, 10>>
    ELSE <<32, 124, 10>>

\* the padding counted from the line's byte length
PaddingByBytes(line, actual_width) ==
    Rep(32, Max(0, actual_width - Len(AsBytes(line))))

\* for _ in line_len..actual_width: one space per missing column
Padding(line, actual_width) == Rep(32, Max(0, actual_width - StrWidth(line)))

\* one body row: delimiter, the line's bytes, the padding, delimiter
BodyRow(i, line, line_count, actual_width) ==
    Prefix(i, line_count) \o AsBytes(line) \o Padding(line, actual_width)
        \o Suffix(i, line_count)

\* the body rows in the order of the lines
BodyRows(lines, actual_width) ==
    Flatten([k \in 1..Len(lines) |->
                BodyRow(k - 1, lines[k], Len(lines), actual_width)])

\* the two connector lines between the bubble and the image
Connector ==
    <<32, 32, 32, 32, 32, 32, 32, 32, 92, 10>> \o
    <<32, 32, 32, 32, 32, 32, 32, 32, 32, 92, 10>>

\* the mascot of say, a newline first
MASCOT ==
    <<10>> \o
    <<32, 32, 32, 32, 32, 32, 32, 32, 92, 10>> \o
    <<32, 32, 32, 32, 32, 32, 32, 32, 32, 92, 10>> \o
    <<32, 32, 32, 32, 32, 32, 32, 32, 32, 32, 32, 32, 95, 126, 94, 126, 94, 126, 95, 10>> \o
    <<32, 32, 32, 32, 32, 32, 32, 32, 92, 41, 32, 47, 32, 32, 111, 32, 111, 32, 32, 92, 32, 40, 47, 10>> \o
    <<32, 32, 32, 32, 32, 32, 32, 32, 32, 32, 39, 95, 32, 32, 32, 45, 32, 32, 32, 95, 39, 10>> \o
    <<32, 32, 32, 32, 32, 32, 32, 32, 32, 32, 47, 32, 39, 45, 45, 45, 45, 45, 39, 32, 92, 10>>

\* write_buffer of say_from_dynamic_image when write_all is called
ImageBubbleBuffer(message, max_width) ==
    LET lines        == WrappedLines(message, max_width)
        actual_width == longest_line(lines)
    IN  TopBorder(actual_width) \o BodyRows(lines, actual_width)
            \o BottomBorder(actual_width) \o <<10>> \o Connector

\* write_buffer of say when write_all is called
SayBuffer(message, max_width) ==
    LET lines        == WrappedLines(message, max_width)
        actual_width == longest_line(lines)
    IN  TopBorder(actual_width) \o BodyRows(lines, actual_width)
            \o BottomBorder(actual_width) \o MASCOT

\* get_pixel with the rows taken bottom-up
GetPixelBottomUp(img, x, y) == img.px[(img.height - 1 - y) * img.width + x + 1]

(***************************************************************************)
(* The image renderer: lib.rs convert_image_to_text and the three modes.   *)
(* An image is [width, height, px], px its RGBA pixels in row-major order. *)
(***************************************************************************)
\* GenericImageView::get_pixel(x, y)
GetPixel(img, x, y) == img.px[y * img.width + x + 1]

\* the solid block U+2588 twice, and two blanks
Blocks == <<226, 150, 136, 226, 150, 136>>

Blanks == <<32, 32>>

\* Display of an unsigned integer: its decimal digits
RECURSIVE Decimal(_)
Decimal(n) == IF n < 10 THEN <<48 + n>> ELSE Decimal(n \div 10) \o <<48 + (n % 10)>>

\* the f32 literals 0.2126, 0.7152 and 0.0722
LumaR == F32Div(2126, 10000)

LumaG == F32Div(7152, 10000)

LumaB == F32Div(722, 10000)

\* (0.2126 * r as f32 + 0.7152 * g as f32 + 0.0722 * b as f32) as u8
Luminance(r, g, b) ==
    F32TruncU8(F32Add(F32Add(F32MulInt(LumaR, r), F32MulInt(LumaG, g)),
                      F32MulInt(LumaB, b)))

\* the escape with the channels in B, G, R order
TrueColorPixelBgr(p) ==
    IF p.a < 128 THEN Blanks
    ELSE <<27, 91, 51, 56, 59, 50, 59>> \o Decimal(p.b) \o <<59>> \o Decimal(p.g)
             \o <<59>> \o Decimal(p.r) \o <<109>> \o Blocks \o <<27, 91, 48, 109>>

\* convert_to_truecolor, one pixel: ESC[38;2;R;G;Bm, two blocks, ESC[0m
TrueColorPixel(p) ==
    IF p.a < 128 THEN Blanks
    ELSE <<27, 91, 51, 56, 59, 50, 59>> \o Decimal(p.r) \o <<59>> \o Decimal(p.g)
             \o <<59>> \o Decimal(p.b) \o <<109>> \o Blocks \o <<27, 91, 48, 109>>

\* the monochrome glyph without the transparency check
MonochromePixelNoAlpha(p) ==
    IF Luminance(p.r, p.g, p.b) > 128 THEN Blocks ELSE Blanks

\* convert_to_monochrome, one pixel
MonochromePixel(p) ==
    IF p.a < 128 THEN Blanks
    ELSE IF Luminance(p.r, p.g, p.b) > 128 THEN Blocks ELSE Blanks

\* the inverted glyph with the threshold at >= 128
InvertPixelInclusive(p) ==
    IF p.a < 128 THEN Blanks
    ELSE IF Luminance(p.r, p.g, p.b) >= 128 THEN Blanks ELSE Blocks

\* convert_to_invert, one pixel
InvertPixel(p) ==
    IF p.a < 128 THEN Blanks
    ELSE IF Luminance(p.r, p.g, p.b) > 128 THEN Blanks ELSE Blocks

\* the new dimensions convert_image_to_text asks for
max_size == 80

NewDimensions(width, height) ==
    IF width > max_size \/ height > max_size
    THEN LET ratio == F32Div(max_size, Max(width, height))
         IN  <<F32Trunc(F32MulInt(ratio, width)), F32Trunc(F32MulInt(ratio, height))>>
    ELSE <<width, height>>

\* x * n / d rounded to the nearest integer, halves up
RoundDiv(x, n, d) == (2 * x * n + d) \div (2 * d)

\* DynamicImage::resize keeps the aspect ratio: the largest size within
\* nwidth x nheight, each side rounded and at least 1
ResizeDimensions(width, height, nwidth, nheight) ==
    IF nwidth * height <= nheight * width
    THEN <<Max(RoundDiv(width, nwidth, width), 1), Max(RoundDiv(height, nwidth, width), 1)>>
    ELSE <<Max(RoundDiv(width, nheight, height), 1), Max(RoundDiv(height, nheight, height), 1)>>

\* DynamicImage::resize with FilterType::Nearest: each new pixel is the source
\* pixel under its centre
Resize(img, nwidth, nheight) ==
    LET d  == ResizeDimensions(img.width, img.height, nwidth, nheight)
        sx(x) == ((2 * x + 1) * img.width) \div (2 * d[1])
        sy(y) == ((2 * y + 1) * img.height) \div (2 * d[2])
    IN  [width  |-> d[1],
         height |-> d[2],
         px     |-> [k \in 1..(d[1] * d[2]) |->
                        img.px[sy((k - 1) \div d[1]) * img.width
                                   + sx((k - 1) % d[1]) + 1]]]

(***************************************************************************)
(* The inputs of the enumerated calls.                                     *)
(***************************************************************************)
RECURSIVE SeqsUpTo(_, _)
SeqsUpTo(S, n) ==
    IF n = 0 THEN {<<>>}
    ELSE LET shorter == SeqsUpTo(S, n - 1)
         IN  shorter \cup {Append(t, c) : t \in shorter, c \in S}

Messages == SeqsUpTo(Alphabet, MaxLen)

Widths == 0..MaxWidth

Modes == {"TrueColor", "Monochrome", "Invert"}

Rgba(r, g, b, a) == [r |-> r, g |-> g, b |-> b, a |-> a]

\* opaque white, opaque red, half-transparent white
Palette == {Rgba(255, 255, 255, 255), Rgba(255, 0, 0, 255), Rgba(255, 255, 255, 50)}

\* channel and alpha values around the two thresholds
ChannelValues == {0, 127, 128, 129, 255}

AlphaValues == {0, 127, 128, 255}

Shapes == {d \in (1..MaxPixels) \X (1..MaxPixels) : d[1] * d[2] <= MaxPixels}

PaletteImages ==
    UNION {{[width |-> d[1], height |-> d[2], px |-> q] :
               q \in [1..(d[1] * d[2]) -> Palette]} : d \in Shapes}

ProbeImages ==
    {[width |-> 1, height |-> 1, px |-> <<Rgba(r, g, b, a)>>] :
        r \in ChannelValues, g \in ChannelValues, b \in ChannelValues,
        a \in AlphaValues}

WhiteImage == [width |-> 1, height |-> 1, px |-> <<Rgba(255, 255, 255, 255)>>]

\* what an undecodable source leaves in place of an image
NoImage == [width |-> 0, height |-> 0, px |-> <<>>]

\* every message and width against a sink that takes every byte; every small image
\* and mode against a sink that may fail; every probe pixel against a reliable sink
Inputs ==
    {[call |-> c, message |-> m, max_width |-> w, img |-> WhiteImage,
      mode |-> "Monochrome", decodable |-> TRUE, failing |-> FALSE] :
        c \in {"say", "say_from_dynamic_image"}, m \in Messages, w \in Widths}
    \cup
    {[call |-> c, message |-> <<97, 769>>, max_width |-> MaxWidth, img |-> i,
      mode |-> md, decodable |-> TRUE, failing |-> TRUE] :
        c \in {"say_from_image", "say_from_dynamic_image"},
        i \in PaletteImages, md \in Modes}
    \cup
    {[call |-> "say_from_image", message |-> m, max_width |-> MaxWidth,
      img |-> NoImage, mode |-> md, decodable |-> FALSE, failing |-> f] :
        m \in {<<>>, <<97, 769>>}, md \in Modes, f \in BOOLEAN}
    \cup
    {[call |-> "say_from_dynamic_image", message |-> <<>>, max_width |-> MaxWidth,
      img |-> i, mode |-> md, decodable |-> TRUE, failing |-> FALSE] :
        i \in ProbeImages, md \in Modes}
    \cup
    {[call |-> "say", message |-> <<97, 10, 97>>, max_width |-> MaxWidth,
      img |-> WhiteImage, mode |-> "Monochrome", decodable |-> TRUE,
      failing |-> TRUE]}

(***************************************************************************)
(* The state.                                                              *)
(***************************************************************************)
VARIABLES
    input,            \* the call and its arguments
    pc,               \* where the call is: entry, framing, convert, render, returned
    result,           \* running, Ok, IoError, InvalidInput
    write_buffer,     \* the bytes handed to write_all
    sink,             \* the bytes the writer has taken
    dims,             \* img.dimensions() in convert_image_to_text
    new_dims,         \* (new_width, new_height)
    resized_img,      \* the image the mode's converter walks
    x, y,             \* the converter's position
    last,             \* history: the last write, its bytes and how many the sink took
    failed,           \* history: a write has failed
    renderer_invoked  \* history: convert_image_to_text has been called

vars == <<input, pc, result, write_buffer, sink, dims, new_dims, resized_img,
          x, y, last, failed, renderer_invoked>>

NoWrite == [kind |-> "none", x |-> 0, y |-> 0, bytes |-> <<>>, before |-> 0,
            taken |-> 0, ok |-> TRUE]

Init ==
    /\ input \in Inputs
    /\ pc = "entry"
    /\ result = "running"
    /\ write_buffer = <<>>
    /\ sink = <<>>
    /\ dims = <<input.img.width, input.img.height>>
    /\ new_dims = <<0, 0>>
    /\ resized_img = NoImage
    /\ x = 0
    /\ y = 0
    /\ last = NoWrite
    /\ failed = FALSE
    /\ renderer_invoked = FALSE

(***************************************************************************)
(* Writes.  write_all and write! either take every byte, or take a proper  *)
(* prefix and return the writer's error.  The failing sink fails before    *)
(* the first byte, after the first, or before the last.                    *)
(***************************************************************************)
\* how many bytes a write of n bytes may leave in the sink
Taken(n) == IF input.failing THEN {k \in 0..n : k <= 1 \/ k >= n - 1} ELSE {n}

\* an error that is dropped: the call goes on
PropagateIgnoring(ok, next) == [pc |-> next, result |-> "running"]

\* the ? operator: an error returns at once, success goes on
Propagate(ok, next) ==
    IF ok THEN [pc |-> next, result |-> "running"]
    ELSE [pc |-> "returned", result |-> "IoError"]

\* one write of bytes: the sink, the history and where the call goes
Write(kind, bytes, next) ==
    \E n \in Taken(Len(bytes)) :
        LET ok  == n = Len(bytes)
            to  == Propagate(ok, next)
        IN  /\ sink' = sink \o SubSeq(bytes, 1, n)
            /\ last' = [kind |-> kind, x |-> x, y |-> y, bytes |-> bytes,
                        before |-> Len(sink), taken |-> n, ok |-> ok]
            /\ failed' = (failed \/ ~ok)
            /\ pc' = to.pc
            /\ result' = to.result

(***************************************************************************)
(* The operations.                                                         *)
(***************************************************************************)
\* say_from_image with the bubble written before the image is opened
SayFromImageBubbleFirst ==
    /\ pc = "entry"
    /\ input.call = "say_from_image"
    /\ write_buffer' = ImageBubbleBuffer(input.message, input.max_width)
    /\ sink' = sink \o write_buffer'
    /\ IF input.decodable
       THEN pc' = "convert" /\ result' = result
       ELSE pc' = "returned" /\ result' = "InvalidInput"
    /\ UNCHANGED <<input, dims, new_dims, resized_img, x, y, last, failed,
                   renderer_invoked>>

\* say_from_image: decode first; a failure returns InvalidInput
SayFromImage ==
    /\ pc = "entry"
    /\ input.call = "say_from_image"
    /\ IF input.decodable
       THEN pc' = "framing" /\ result' = result
       ELSE pc' = "returned" /\ result' = "InvalidInput"
    /\ UNCHANGED <<input, write_buffer, sink, dims, new_dims, resized_img, x, y,
                   last, failed, renderer_invoked>>

\* say_from_dynamic_image up to write_all(&write_buffer)?
SayFromDynamicImage ==
    /\ \/ pc = "entry" /\ input.call = "say_from_dynamic_image"
       \/ pc = "framing"
    /\ write_buffer' = ImageBubbleBuffer(input.message, input.max_width)
    /\ Write("bubble", write_buffer', "convert")
    /\ UNCHANGED <<input, dims, new_dims, resized_img, x, y, renderer_invoked>>

\* convert_image_to_text: the size, the resize, the dispatch on the mode
ConvertImageToText ==
    /\ pc = "convert"
    /\ renderer_invoked' = TRUE
    /\ new_dims' = NewDimensions(dims[1], dims[2])
    /\ resized_img' = Resize(input.img, new_dims'[1], new_dims'[2])
    /\ x' = 0
    /\ y' = 0
    /\ pc' = "render"
    /\ UNCHANGED <<input, result, write_buffer, sink, dims, last, failed>>

\* one pass of the inner loop of a converter: write!(writer, ...)?
ConvertPixel(md, bytes) ==
    /\ pc = "render"
    /\ input.mode = md
    /\ y < resized_img.height
    /\ x < resized_img.width
    /\ Write("pixel", bytes, "render")
    /\ x' = IF pc' = "render" THEN x + 1 ELSE x
    /\ UNCHANGED <<input, write_buffer, dims, new_dims, resized_img, y,
                   renderer_invoked>>

convert_to_truecolor ==
    ConvertPixel("TrueColor", TrueColorPixel(GetPixel(resized_img, x, y)))

convert_to_monochrome ==
    ConvertPixel("Monochrome", MonochromePixel(GetPixel(resized_img, x, y)))

convert_to_invert ==
    ConvertPixel("Invert", InvertPixel(GetPixel(resized_img, x, y)))

\* the end of a row: writeln!(writer)?
EndOfRow ==
    /\ pc = "render"
    /\ y < resized_img.height
    /\ x = resized_img.width
    /\ Write("newline", <<10>>, "render")
    /\ x' = IF pc' = "render" THEN 0 ELSE x
    /\ y' = IF pc' = "render" THEN y + 1 ELSE y
    /\ UNCHANGED <<input, write_buffer, dims, new_dims, resized_img,
                   renderer_invoked>>

\* after the last row: Ok(()) up to the caller
ReturnOk ==
    /\ pc = "render"
    /\ y = resized_img.height
    /\ pc' = "returned"
    /\ result' = "Ok"
    /\ UNCHANGED <<input, write_buffer, sink, dims, new_dims, resized_img, x, y,
                   last, failed, renderer_invoked>>

\* say: the bubble and the mascot in one write_all, whose result is the call's
Say ==
    /\ pc = "entry"
    /\ input.call = "say"
    /\ write_buffer' = SayBuffer(input.message, input.max_width)
    /\ \E n \in Taken(Len(write_buffer')) :
        LET ok == n = Len(write_buffer')
        IN  /\ sink' = sink \o SubSeq(write_buffer', 1, n)
            /\ last' = [kind |-> "bubble", x |-> x, y |-> y, bytes |-> write_buffer',
                        before |-> Len(sink), taken |-> n, ok |-> ok]
            /\ failed' = (failed \/ ~ok)
            /\ result' = IF ok THEN "Ok" ELSE "IoError"
    /\ pc' = "returned"
    /\ UNCHANGED <<input, dims, new_dims, resized_img, x, y, renderer_invoked>>

Next ==
    \/ SayFromImage
    \/ SayFromDynamicImage
    \/ ConvertImageToText
    \/ convert_to_truecolor
    \/ convert_to_monochrome
    \/ convert_to_invert
    \/ EndOfRow
    \/ ReturnOk
    \/ Say

Spec == Init /\ [][Next]_vars

(***************************************************************************)
(* The downsampling alone: convert_image_to_text's size computation on     *)
(* every image size up to MaxSide x MaxSide.                               *)
(***************************************************************************)
InitDims ==
    /\ input = [call |-> "say_from_dynamic_image", message |-> <<>>,
                max_width |-> MaxWidth, img |-> NoImage, mode |-> "Monochrome",
                decodable |-> TRUE, failing |-> FALSE]
    /\ pc = "convert"
    /\ result = "running"
    /\ write_buffer = <<>>
    /\ sink = <<>>
    /\ dims \in (1..MaxSide) \X (1..MaxSide)
    /\ new_dims = <<0, 0>>
    /\ resized_img = NoImage
    /\ x = 0
    /\ y = 0
    /\ last = NoWrite
    /\ failed = FALSE
    /\ renderer_invoked = FALSE

\* let (new_width, new_height) = ...
ScaleDimensions ==
    /\ pc = "convert"
    /\ renderer_invoked' = TRUE
    /\ new_dims' = NewDimensions(dims[1], dims[2])
    /\ pc' = "sized"
    /\ UNCHANGED <<input, result, write_buffer, sink, dims, resized_img, x, y,
                   last, failed>>

NextDims == ScaleDimensions

SpecDims == InitDims /\ [][NextDims]_vars

(***************************************************************************)
(* What the properties below read.                                         *)
(***************************************************************************)
\* the wrapped lines of the call's message
Lines == WrappedLines(input.message, input.max_width)

\* the pieces of a byte string between its newlines, the one after the last included
Pieces(bs) ==
    LET nl     == {i \in 1..Len(bs) : bs[i] = 10}
        at(k)  == IF k = 0 THEN 0
                  ELSE IF k > Cardinality(nl) THEN Len(bs) + 1
                  ELSE CHOOSE i \in nl : Cardinality({j \in nl : j < i}) = k - 1
    IN  [k \in 1..(Cardinality(nl) + 1) |-> SubSeq(bs, at(k - 1) + 1, at(k) - 1)]

\* the rows of the write buffer
Rows == Pieces(write_buffer)

\* the widest line's display width, 0 without lines
Widest(lines) ==
    IF lines = <<>> THEN 0
    ELSE CHOOSE w \in {StrWidth(lines[k]) : k \in 1..Len(lines)} :
             \A k \in 1..Len(lines) : StrWidth(lines[k]) <= w

StartsWith(s, t) == Len(t) <= Len(s) /\ SubSeq(s, 1, Len(t)) = t

EndsWith(s, t) == Len(t) <= Len(s) /\ SubSeq(s, Len(s) - Len(t) + 1, Len(s)) = t

\* the delimiters by row position, as the framer's contract gives them
OpenOf(i, n) ==
    CASE n = 1 -> <<60, 32>>
      [] n >= 2 /\ i = 0 -> <<47, 32>>
      [] n >= 2 /\ i = n - 1 -> <<92, 32>>
      [] OTHER -> <<124, 32>>

CloseOf(i, n) ==
    CASE n = 1 -> <<32, 62>>
      [] n >= 2 /\ i = 0 -> <<32, 92>>
      [] n >= 2 /\ i = n - 1 -> <<32, 47>>
      [] OTHER -> <<32, 124>>

\* the code points of a UTF-8 byte string (one- and two-byte sequences)
RECURSIVE DecodeUtf8(_)
DecodeUtf8(bs) ==
    IF bs = <<>> THEN <<>>
    ELSE IF Head(bs) < 128 THEN <<Head(bs)>> \o DecodeUtf8(Tail(bs))
    ELSE <<(Head(bs) - 192) * 64 + (bs[2] - 128)>> \o DecodeUtf8(Tail(Tail(bs)))

\* the pixel of the input image the last write was for
LastPixel == input.img.px[last.y * input.img.width + last.x + 1]

\* a number below 1000 in decimal
Digits(n) ==
    IF n >= 100 THEN <<48 + (n \div 100), 48 + ((n \div 10) % 10), 48 + (n % 10)>>
    ELSE IF n >= 10 THEN <<48 + (n \div 10), 48 + (n % 10)>>
    ELSE <<48 + n>>

\* the glyph pair of a pixel in the call's mode
GlyphOf(p) ==
    CASE input.mode = "TrueColor" -> TrueColorPixel(p)
      [] input.mode = "Monochrome" -> MonochromePixel(p)
      [] input.mode = "Invert" -> InvertPixel(p)

\* the art of the input image: per row its glyph pairs left to right, a newline
ArtRow(r) ==
    Flatten([c \in 1..input.img.width |->
                GlyphOf(input.img.px[(r - 1) * input.img.width + c])]) \o <<10>>

Art == Flatten([r \in 1..input.img.height |-> ArtRow(r)])

\* the bubble and the connector of say_from_dynamic_image
Bubble ==
    LET lines == Lines
        aw    == Widest(lines)
    IN  <<32>> \o Rep(95, aw + 2) \o <<10>>
            \o BodyRows(lines, aw)
            \o <<32>> \o Rep(45, aw + 2) \o <<10>>
            \o <<32, 32, 32, 32, 32, 32, 32, 32, 92, 10>>
            \o <<32, 32, 32, 32, 32, 32, 32, 32, 32, 92, 10>>

InImageCall == input.call \in {"say_from_image", "say_from_dynamic_image"}

(***************************************************************************)
(* The properties.                                                         *)
(***************************************************************************)
\* C1: in say and say_from_dynamic_image the delimiters of body row i of n depend
\* only on i and n: "< " and " >" for the only row, "/ " and " \" for row 0,
\* "\ " and " /" for row n-1, "| " and " |" in between; the rows follow the order
\* of the wrapped lines and there are exactly n of them between the two borders.
C1_Delimiters ==
    last.kind = "bubble" =>
        LET lines == Lines
            rows  == Rows
            n     == Len(lines)
        IN  /\ Len(rows) = n + (IF input.call = "say" THEN 9 ELSE 5)
            /\ StartsWith(rows[1], <<32, 95>>)
            /\ StartsWith(rows[n + 2], <<32, 45>>)
            /\ \A i \in 0..(n - 1) :
                /\ StartsWith(rows[i + 2], OpenOf(i, n))
                /\ EndsWith(rows[i + 2], CloseOf(i, n))
                /\ StartsWith(SubSeq(rows[i + 2], 3, Len(rows[i + 2])),
                              AsBytes(lines[i + 1]))

\* a bubble of say with a first, an interior and a last row has been written
C1_Witness ==
    /\ input.call = "say"
    /\ result = "Ok"
    /\ Len(Lines) >= 3
    /\ sink = write_buffer

\* C2: for every message, the empty one included, the top border is a space and
\* actual_width + 2 underscores, the bottom border a space and actual_width + 2
\* dashes, actual_width being the greatest display width of a wrapped line (0
\* without lines); both borders have the same length.
C2_Borders ==
    last.kind = "bubble" =>
        LET lines == Lines
            rows  == Rows
            n     == Len(lines)
            aw    == Widest(lines)
        IN  /\ rows[1] = <<32>> \o Rep(95, aw + 2)
            /\ rows[n + 2] = <<32>> \o Rep(45, aw + 2)
            /\ Len(rows[1]) = Len(rows[n + 2])

\* the bubble of a message without lines has been written
C2_Witness ==
    /\ InImageCall
    /\ last.kind = "bubble"
    /\ last.ok
    /\ Lines = <<>>
    /\ sink = write_buffer

\* C3: a pixel with alpha < 128 is written as exactly two spaces in TrueColor,
\* Monochrome and Invert, whatever its R, G and B.
C3_Transparent ==
    (last.kind = "pixel" /\ LastPixel.a < 128) =>
        /\ last.bytes = <<32, 32>>
        /\ last.ok => SubSeq(sink, last.before + 1, Len(sink)) = <<32, 32>>

\* a transparent white pixel has been written in Monochrome mode
C3_Witness ==
    /\ last.kind = "pixel"
    /\ last.ok
    /\ input.mode = "Monochrome"
    /\ LastPixel.a < 128
    /\ LastPixel.r = 255 /\ LastPixel.g = 255 /\ LastPixel.b = 255

\* C4: for every opaque pixel Monochrome writes two blocks exactly when Invert
\* writes two blanks and two blanks exactly when Invert writes two blocks; a
\* luminance of exactly 128 is blank in Monochrome and solid in Invert.
C4_Complement ==
    (last.kind = "pixel" /\ LastPixel.a >= 128
        /\ input.mode \in {"Monochrome", "Invert"}) =>
        LET mono == MonochromePixel(LastPixel)
            inv  == InvertPixel(LastPixel)
            lum  == Luminance(LastPixel.r, LastPixel.g, LastPixel.b)
        IN  /\ last.bytes = (IF input.mode = "Monochrome" THEN mono ELSE inv)
            /\ mono = Blocks <=> inv = Blanks
            /\ mono = Blanks <=> inv = Blocks
            /\ mono = Blocks <=> lum > 128
            /\ lum = 128 => (mono = Blanks /\ inv = Blocks)

\* an opaque pixel of luminance 128 has been written as two blocks in Invert mode
C4_Witness ==
    /\ last.kind = "pixel"
    /\ last.ok
    /\ input.mode = "Invert"
    /\ LastPixel.a >= 128
    /\ Luminance(LastPixel.r, LastPixel.g, LastPixel.b) = 128
    /\ last.bytes = Blocks

\* C5: an image with a side above 80 gets new dimensions whose larger one is 80
\* and whose other one is the original times 80 / max(width, height), truncated;
\* an image with both sides at most 80 keeps its dimensions.
C5_Downsample ==
    pc = "sized" =>
        LET w == dims[1]
            h == dims[2]
            m == Max(w, h)
        IN  IF w > 80 \/ h > 80
            THEN /\ Max(new_dims[1], new_dims[2]) = 80
                 /\ new_dims[1] = (w * 80) \div m
                 /\ new_dims[2] = (h * 80) \div m
            ELSE new_dims = <<w, h>>

\* C6: when say_from_image cannot decode the image it returns an input error and
\* nothing has been written: no bubble, no art, no write attempted.
C6_DecodeFailure ==
    /\ (input.call = "say_from_image" /\ ~input.decodable /\ pc = "returned") =>
          result = "InvalidInput"
    /\ result = "InvalidInput" =>
          /\ input.call = "say_from_image" /\ ~input.decodable
          /\ sink = <<>>
          /\ last.kind = "none"
          /\ ~renderer_invoked

\* a call on an undecodable image has returned
C6_Witness ==
    /\ pc = "returned"
    /\ result = "InvalidInput"
    /\ input.message # <<>>

\* C7: once a write of say_from_dynamic_image has failed the call has returned
\* that error and written nothing since: the sink ends with the bytes the failing
\* write left, after the bytes written before it; a failed bubble write means the
\* image renderer was never invoked.
C7_WriteFailure ==
    (InImageCall /\ failed) =>
        LET bubble == Bubble
        IN  /\ pc = "returned"
            /\ result = "IoError"
            /\ ~last.ok
            /\ last.taken < Len(last.bytes)
            /\ Len(sink) = last.before + last.taken
            /\ SubSeq(sink, last.before + 1, Len(sink))
                   = SubSeq(last.bytes, 1, last.taken)
            /\ IsPrefix(sink, bubble \o Art)
            /\ last.kind = "bubble" => (~renderer_invoked /\ last.before = 0)
            /\ last.kind # "bubble" => IsPrefix(bubble, sink)

\* a pixel write has failed after the sink took a part of the pixel's bytes
C7_Witness ==
    /\ InImageCall
    /\ failed
    /\ last.kind = "pixel"
    /\ last.taken > 0
    /\ last.x > 0

\* C8: in TrueColor mode an opaque pixel is written as ESC[38;2;R;G;Bm with its own
\* R, G and B in decimal, two solid blocks and ESC[0m; an opaque (255,0,0) pixel is
\* ESC[38;2;255;0;0m, two blocks, ESC[0m.
C8_TrueColor ==
    (last.kind = "pixel" /\ input.mode = "TrueColor" /\ LastPixel.a >= 128) =>
        /\ last.bytes = <<27, 91, 51, 56, 59, 50, 59>> \o Digits(LastPixel.r)
                            \o <<59>> \o Digits(LastPixel.g)
                            \o <<59>> \o Digits(LastPixel.b)
                            \o <<109, 226, 150, 136, 226, 150, 136, 27, 91, 48, 109>>
        /\ (LastPixel.r = 255 /\ LastPixel.g = 0 /\ LastPixel.b = 0) =>
               last.bytes = <<27, 91, 51, 56, 59, 50, 59, 50, 53, 53, 59, 48, 59, 48,
                              109, 226, 150, 136, 226, 150, 136, 27, 91, 48, 109>>
        /\ last.ok => SubSeq(sink, last.before + 1, Len(sink)) = last.bytes

\* an opaque red pixel has been written in TrueColor mode
C8_Witness ==
    /\ last.kind = "pixel"
    /\ last.ok
    /\ input.mode = "TrueColor"
    /\ LastPixel = Rgba(255, 0, 0, 255)

\* C9: the sink of say_from_dynamic_image is only appended to; it holds the top
\* border, the body rows, the bottom border and the two connector lines before the
\* first byte of art, and the art is one row per image row from the top, each one
\* glyph pair per pixel from the left and a newline.
C9_State ==
    InImageCall =>
        LET bubble == Bubble
            whole  == bubble \o Art
        IN  /\ IsPrefix(sink, whole)
            /\ ~renderer_invoked => Len(sink) <= Len(bubble)
            /\ renderer_invoked => Len(sink) >= Len(bubble)
            /\ last.kind \in {"pixel", "newline"} => last.before >= Len(bubble)
            /\ result = "Ok" => sink = whole

C9_Order == [][IsPrefix(sink, sink')]_vars /\ []C9_State

\* an image of two rows with different first pixels has been rendered whole
C9_Witness ==
    /\ InImageCall
    /\ result = "Ok"
    /\ input.img.height >= 2
    /\ input.img.px[1] # input.img.px[input.img.width + 1]
    /\ input.mode = "TrueColor"

\* C10: a line of display width w gets exactly actual_width - w spaces of padding
\* before the closing delimiter, so every body row of a bubble is actual_width + 4
\* columns wide.
C10_Padding ==
    last.kind = "bubble" =>
        LET lines == Lines
            rows  == Rows
            aw    == Widest(lines)
        IN  \A k \in 1..Len(lines) :
                LET row == rows[k + 1]
                    b   == AsBytes(lines[k])
                    pad == aw - StrWidth(lines[k])
                IN  /\ Len(row) = 2 + Len(b) + pad + 2
                    /\ SubSeq(row, 3, 2 + Len(b)) = b
                    /\ SubSeq(row, 3 + Len(b), 2 + Len(b) + pad) = Rep(32, pad)
                    /\ StrWidth(DecodeUtf8(row)) = aw + 4

\* a bubble whose zero-column line of two bytes sits above a wider line
C10_Witness ==
    /\ last.kind = "bubble"
    /\ last.ok
    /\ sink = write_buffer
    /\ Len(Lines) >= 2
    /\ StrWidth(Lines[1]) < Widest(Lines)
    /\ Len(AsBytes(Lines[1])) > StrWidth(Lines[1])
====
